---- MODULE Spec2Model ----
(***************************************************************************)
(* cmus-status-scrobbler: the scrobble decision (calculate_scrobbles), the *)
(* per-service queue kept in SQLite (make_db_env), the update cycle        *)
(* (run_update_scrobble_state) and the invocation around it (db_connect,   *)
(* main).  Timestamps are whole seconds; an absent duration is NoDuration. *)
(***************************************************************************)
EXTENDS Integers, Sequences, FiniteSets, TLC

VARIABLES
    db,               \* committed tables: service -> rows (status updates)
    tx,               \* the tables as the open write transaction sees them
    lock,             \* invocation holding the write transaction, 0 = none
    now,              \* wall clock, seconds
    pc,               \* position of every invocation
    status,           \* the status update parsed by every invocation
    attempts,         \* failed BEGIN IMMEDIATE attempts of every invocation
    svc,              \* index of the service an invocation is working on
    status_updates,   \* run_update_scrobble_state locals, one frame per service
    scrobbles,
    leftovers,
    failed_scrobbles,
    idx,              \* loop variable i of the batch loop
    calls,            \* history: scrobble calls of the open transaction
    pending,          \* history: retained plays whose submission failed
    order,            \* history: invocations in order of acquiring the lock
    raised_at,        \* history: where the latest transaction raised
    np_failed,        \* history: a now-playing request of it failed
    started,          \* number of invocations started so far
    now_playing,      \* configuration: service_config.now_playing
    nsvc,             \* configuration: number of services
    calc_in,          \* input handed to calculate_scrobbles on its own
    calc_out,         \* its result
    np_sent,          \* history: services sent a now-playing request by the
                      \* open transaction
    enough_in,        \* arguments handed to has_played_enough on its own
    enough_out        \* its outcome

vars == <<db, tx, lock, now, pc, status, attempts, svc, status_updates,
          scrobbles, leftovers, failed_scrobbles, idx, calls, pending, order,
          raised_at, np_failed, np_sent, started, now_playing, nsvc, calc_in,
          calc_out, enough_in, enough_out>>

progVars == <<db, tx, lock, now, pc, status, attempts, svc, status_updates,
              scrobbles, leftovers, failed_scrobbles, idx, calls, pending,
              order, raised_at, np_failed, np_sent, started, now_playing,
              nsvc>>

(***************************************************************************)
(* Bounds                                                                  *)
(***************************************************************************)
MaxLen == 4          \* longest input of calculate_scrobbles on its own
MaxConc == 2         \* invocations that may overlap
MaxSeq == 5          \* invocations run one after another
retry_attempts == 2  \* db_connect_retry_attempts, 10 in main
scrobble_batch_size == 1  \* 50 in main
MaxMulti == 3        \* invocations with two services configured
MaxRun == 7          \* longest input made of two tracks one second apart
MaxPerm == 3         \* longest input handed over in any order
MaxCarried == 2      \* largest played_before_pause handed to has_played_enough
MaxAgain == 4        \* longest input decided twice
MaxPlayer == 10      \* longest listening session
MaxBare == 7         \* longest listening session with an untagged track
MaxIncr == 7         \* cycles of one service, one status update each
MaxLoad == 3         \* invocations on a database with a foreign row
MaxForeign == 1      \* tables that hold a foreign row

Invs == 1..MaxConc
Services == {1, 2}

(***************************************************************************)
(* Status                                                                  *)
(***************************************************************************)
STATUS_STOPPED == "stopped"
STATUS_PLAYING == "playing"
STATUS_PAUSED == "paused"
Statuses == {STATUS_STOPPED, STATUS_PLAYING, STATUS_PAUSED}

NoDuration == -1

Status(st, f, d, t) == [status |-> st, file |-> f, duration |-> d, cur_time |-> t]

\* tracks of the player's library: a file and its duration
Track(f, d) == [file |-> f, duration |-> d]
TracksCalc == {Track("A", 4), Track("B", 2), Track("C", NoDuration)}
TracksConc == {Track("A", 2), Track("Z", 0)}
TracksSeq == {Track("A", 5), Track("B", 2)}
TracksFair == {Track("A", 2)}
Deltas == {1, 2}
DeltasConc == {1}

Range(s) == {s[k] : k \in 1..Len(s)}

(***************************************************************************)
(* calculate_scrobbles                                                     *)
(***************************************************************************)
secs_thresh == 4 * 60

\* mutant: no play time is ever enough
has_played_enough_never(start_ts, end_ts, duration_value, played_before_pause) ==
    FALSE

\* total/duration >= perc_thresh, perc_thresh = 0.5
has_played_enough(start_ts, end_ts, duration_value, played_before_pause) ==
    IF duration_value = NoDuration THEN FALSE
    ELSE LET total == end_ts - start_ts + played_before_pause
         IN  2 * total >= duration_value \/ total >= secs_thresh

\* total/duration raises ZeroDivisionError
has_played_enough_raises(duration_value) ==
    duration_value # NoDuration /\ duration_value = 0

equal_tracks(first, second) == first.file = second.file

\* mutant: the list is decided in the order it has
sorted_off(s) == s

\* sorted(status_updates, key=attrgetter('cur_time')): stable
RECURSIVE sorted(_)
sorted(s) ==
    IF Len(s) <= 1 THEN s
    ELSE LET init == sorted(SubSeq(s, 1, Len(s) - 1))
             e == s[Len(s)]
             keep == {k \in 1..Len(init) : init[k].cur_time <= e.cur_time}
             n == Cardinality(keep)
         IN  SubSeq(init, 1, n) \o <<e>> \o SubSeq(init, n + 1, Len(init))

\* mutant: nothing is deferred, the whole list is the decidable prefix
get_prefix_end_len(sus) == Len(sus)

\* mutant: everything is deferred, the decidable prefix is empty
get_prefix_end_zero(sus) == 0

get_prefix_end_exclusive_idx(sus) ==
    LET n == Len(sus)
        brk(i) == LET cur == sus[n - i]
                      prv == sus[n - i - 1]
                  IN  \/ cur.status = STATUS_STOPPED
                      \/ ~equal_tracks(cur, prv)
                      \/ cur.status = prv.status
                      \/ prv.status = STATUS_STOPPED
        B == {i \in 0..(n - 2) : brk(i)}
    IN  IF B = {} THEN 0
        ELSE n - (CHOOSE i \in B : \A j \in B : i <= j)

\* mutant: the lists and the carry are kept from one call to the next
WalkInitKept ==
    IF calc_out = <<>>
    THEN [played_before_pause |-> 0, played_before_pause_status |-> <<>>,
          scrobbles |-> <<>>, leftovers |-> <<>>, broke |-> FALSE,
          raised |-> FALSE]
    ELSE [played_before_pause |-> 0, played_before_pause_status |-> <<>>,
          scrobbles |-> calc_out[1].scrobbles, leftovers |-> <<>>,
          broke |-> FALSE, raised |-> FALSE]

\* state of the walk over the decidable prefix
WalkInit ==
    [played_before_pause |-> 0, played_before_pause_status |-> <<>>,
     scrobbles |-> <<>>, leftovers |-> <<>>, broke |-> FALSE, raised |-> FALSE]

\* mutant: a play is put in front of the plays found so far
WalkStepPrepend(lsus, k, w) ==
    LET cur == lsus[k]
    IN
    IF w.broke \/ w.raised THEN w
    ELSE IF cur.status \in {STATUS_STOPPED, STATUS_PAUSED} THEN w
    ELSE IF k + 1 > Len(lsus)
    THEN [w EXCEPT !.leftovers = Append(@, cur), !.broke = TRUE]
    ELSE
    LET nxt == lsus[k + 1]
        carry == IF w.played_before_pause_status # <<>>
                    /\ equal_tracks(w.played_before_pause_status[1], cur)
                 THEN w.played_before_pause ELSE 0
        played_enough ==
            has_played_enough(cur.cur_time, nxt.cur_time, cur.duration, carry)
    IN
    IF has_played_enough_raises(cur.duration) THEN [w EXCEPT !.raised = TRUE]
    ELSE IF ~equal_tracks(cur, nxt)
            \/ nxt.status \in {STATUS_STOPPED, STATUS_PLAYING}
    THEN [w EXCEPT !.scrobbles = IF played_enough THEN <<cur>> \o @ ELSE @,
                   !.played_before_pause = 0,
                   !.played_before_pause_status = <<>>]
    ELSE IF k + 2 > Len(lsus)
    THEN [w EXCEPT !.leftovers = @ \o <<cur, nxt>>]
    ELSE
    LET nxt2 == lsus[k + 2]
    IN
    IF equal_tracks(cur, nxt2) /\ nxt2.status = STATUS_PLAYING
    THEN [w EXCEPT !.played_before_pause = @ + nxt.cur_time - cur.cur_time,
                   !.played_before_pause_status =
                       IF @ = <<>> THEN <<cur>> ELSE @]
    ELSE IF played_enough
    THEN [w EXCEPT !.scrobbles =
              <<IF w.played_before_pause_status # <<>>
                THEN w.played_before_pause_status[1] ELSE cur>> \o @]
    ELSE w

\* one iteration of the for loop over zip_longest(lsus, lsus[1:], lsus[2:])
WalkStep(lsus, k, w) ==
    LET cur == lsus[k]
    IN
    IF w.broke \/ w.raised THEN w
    ELSE IF cur.status \in {STATUS_STOPPED, STATUS_PAUSED} THEN w
    ELSE IF k + 1 > Len(lsus)
    THEN [w EXCEPT !.leftovers = Append(@, cur), !.broke = TRUE]
    ELSE
    LET nxt == lsus[k + 1]
        carry == IF w.played_before_pause_status # <<>>
                    /\ equal_tracks(w.played_before_pause_status[1], cur)
                 THEN w.played_before_pause ELSE 0
        played_enough ==
            has_played_enough(cur.cur_time, nxt.cur_time, cur.duration, carry)
    IN
    IF has_played_enough_raises(cur.duration) THEN [w EXCEPT !.raised = TRUE]
    ELSE IF ~equal_tracks(cur, nxt)
            \/ nxt.status \in {STATUS_STOPPED, STATUS_PLAYING}
    THEN [w EXCEPT !.scrobbles = IF played_enough THEN Append(@, cur) ELSE @,
                   !.played_before_pause = 0,
                   !.played_before_pause_status = <<>>]
    ELSE IF k + 2 > Len(lsus)
    THEN [w EXCEPT !.leftovers = @ \o <<cur, nxt>>]
    ELSE
    LET nxt2 == lsus[k + 2]
    IN
    IF equal_tracks(cur, nxt2) /\ nxt2.status = STATUS_PLAYING
    THEN [w EXCEPT !.played_before_pause = @ + nxt.cur_time - cur.cur_time,
                   !.played_before_pause_status =
                       IF @ = <<>> THEN <<cur>> ELSE @]
    ELSE IF played_enough
    THEN [w EXCEPT !.scrobbles =
              Append(@, IF w.played_before_pause_status # <<>>
                        THEN w.played_before_pause_status[1] ELSE cur)]
    ELSE w

RECURSIVE Walk(_, _, _)
Walk(lsus, k, w) ==
    IF k > Len(lsus) THEN w ELSE Walk(lsus, k + 1, WalkStep(lsus, k, w))

\* mutant: the walk runs over the whole sorted list
decidable_prefix_whole(sus, prefix_end) == sus

\* the decidable prefix handed to the walk
decidable_prefix(sus, prefix_end) == SubSeq(sus, 1, prefix_end)

\* mutant: the deferred suffix is not returned
calculate_scrobbles_no_suffix(sus0) ==
    IF Len(sus0) <= 1
    THEN [scrobbles |-> <<>>, leftovers |-> sus0, raised |-> FALSE]
    ELSE LET sus == sorted(sus0)
             prefix_end == get_prefix_end_exclusive_idx(sus)
             lsus == decidable_prefix(sus, prefix_end)
             w == Walk(lsus, 1, WalkInit)
         IN  [scrobbles |-> w.scrobbles,
              leftovers |-> w.leftovers,
              raised |-> w.raised]

\* mutant: the early return hands back the empty leftovers list
calculate_scrobbles_early_empty(sus0) ==
    IF Len(sus0) <= 1
    THEN [scrobbles |-> <<>>, leftovers |-> <<>>, raised |-> FALSE]
    ELSE LET sus == sorted(sus0)
             prefix_end == get_prefix_end_exclusive_idx(sus)
             lsus == decidable_prefix(sus, prefix_end)
             w == Walk(lsus, 1, WalkInit)
         IN  [scrobbles |-> w.scrobbles,
              leftovers |-> w.leftovers \o SubSeq(sus, prefix_end + 1, Len(sus)),
              raised |-> w.raised]

calculate_scrobbles(sus0) ==
    IF Len(sus0) <= 1
    THEN [scrobbles |-> <<>>, leftovers |-> sus0, raised |-> FALSE]
    ELSE LET sus == sorted(sus0)
             prefix_end == get_prefix_end_exclusive_idx(sus)
             lsus == decidable_prefix(sus, prefix_end)
             w == Walk(lsus, 1, WalkInit)
         IN  [scrobbles |-> w.scrobbles,
              leftovers |-> w.leftovers \o SubSeq(sus, prefix_end + 1, Len(sus)),
              raised |-> w.raised]

(***************************************************************************)
(* make_db_env: the table of one service, as its rows in insertion order.  *)
(* pickle.dumps followed by pickle.loads gives back the same Status.       *)
(***************************************************************************)
get_status_updates(rows) == rows

\* a row whose pickle does not load as a Status
NotAStatus == [payload |-> "other"]

isinstance_Status(loaded) ==
    DOMAIN loaded = {"status", "file", "duration", "cur_time"}

\* raise TypeError('Unexpected status update payload.')
get_status_updates_raises(rows) ==
    \E k \in 1..Len(rows) : ~isinstance_Status(rows[k])

clear(rows) == <<>>

save_status_updates(rows, sus) == IF sus = <<>> THEN rows ELSE rows \o sus

(***************************************************************************)
(* Initial state of the program: empty database, nothing started           *)
(***************************************************************************)
NoFrames == [s \in Services |-> <<>>]
NoStatus == Status("", "", NoDuration, 0)

ProgInit ==
    /\ db = [s \in Services |-> <<>>]
    /\ tx = [s \in Services |-> <<>>]
    /\ lock = 0
    /\ now = 0
    /\ pc = [i \in Invs |-> "idle"]
    /\ status = [i \in Invs |-> NoStatus]
    /\ attempts = [i \in Invs |-> 0]
    /\ svc = [i \in Invs |-> 0]
    /\ status_updates = NoFrames
    /\ scrobbles = NoFrames
    /\ leftovers = NoFrames
    /\ failed_scrobbles = NoFrames
    /\ idx = 0
    /\ calls = <<>>
    /\ pending = [s \in Services |-> {}]
    /\ order = <<>>
    /\ raised_at = "none"
    /\ np_failed = FALSE
    /\ np_sent = {}
    /\ started = 0

InTx == {"load", "calc", "scrobble", "clear", "save", "now_playing", "commit"}
AfterAppend == InTx \ {"load"}
Ended == {"done", "fatal"}

(***************************************************************************)
(* main: parse the status line; cur_time is the wall clock                 *)
(***************************************************************************)
parse_cmus_status_line(i, tracks, deltas) ==
    /\ \E tr \in tracks, st \in Statuses, d \in deltas :
          /\ now' = now + d
          /\ status' = [status EXCEPT
                          ![i] = Status(st, tr.file, tr.duration, now + d)]
    /\ pc' = [pc EXCEPT ![i] = "connect"]
    /\ attempts' = [attempts EXCEPT ![i] = 0]
    /\ started' = started + 1
    /\ UNCHANGED <<db, tx, lock, svc, status_updates, scrobbles, leftovers,
                   failed_scrobbles, idx, calls, pending, order, raised_at,
                   np_failed, np_sent, now_playing, nsvc, calc_in, calc_out,
                   enough_in, enough_out>>

(***************************************************************************)
(* db_connect: BEGIN IMMEDIATE, retried retry_attempts times               *)
(***************************************************************************)
\* mutant: a deferred BEGIN, which takes no write lock
begin_deferred_ok(i) == TRUE

\* the statement succeeds only when no other connection holds the write lock
begin_immediate_ok(i) == lock = 0

BeginImmediate(i) ==
    /\ pc[i] = "connect"
    /\ begin_immediate_ok(i)
    /\ lock' = i
    /\ tx' = db
    /\ svc' = [svc EXCEPT ![i] = 1]
    /\ pc' = [pc EXCEPT ![i] = "load"]
    /\ order' = Append(order, i)
    /\ raised_at' = "none"
    /\ np_failed' = FALSE
    /\ np_sent' = {}
    /\ UNCHANGED <<db, now, status, attempts, status_updates, scrobbles,
                   leftovers, failed_scrobbles, idx, calls, pending, started,
                   now_playing, nsvc, calc_in, calc_out, enough_in,
                   enough_out>>

\* mutant: one attempt more than retry_attempts
BeginBusyOffByOne(i) ==
    /\ pc[i] = "connect"
    /\ ~begin_immediate_ok(i)
    /\ attempts' = [attempts EXCEPT ![i] = @ + 1]
    /\ pc' = [pc EXCEPT ![i] = IF attempts[i] + 1 > retry_attempts
                               THEN "fatal" ELSE "connect"]
    /\ status' = [status EXCEPT ![i] = IF attempts[i] + 1 > retry_attempts
                                       THEN NoStatus ELSE @]
    /\ UNCHANGED <<db, tx, lock, now, svc, status_updates, scrobbles,
                   leftovers, failed_scrobbles, idx, calls, pending, order,
                   raised_at, np_failed, np_sent, started, now_playing, nsvc, calc_in,
                   calc_out, enough_in, enough_out>>

\* sqlite3.OperationalError: sleep and take the next turn of the for loop;
\* the loop's else clause raises once range(retry_attempts) is used up
BeginBusy(i) ==
    /\ pc[i] = "connect"
    /\ ~begin_immediate_ok(i)
    /\ attempts' = [attempts EXCEPT ![i] = @ + 1]
    /\ pc' = [pc EXCEPT ![i] = IF attempts[i] + 1 >= retry_attempts
                               THEN "fatal" ELSE "connect"]
    /\ status' = [status EXCEPT ![i] = IF attempts[i] + 1 >= retry_attempts
                                       THEN NoStatus ELSE @]
    /\ UNCHANGED <<db, tx, lock, now, svc, status_updates, scrobbles,
                   leftovers, failed_scrobbles, idx, calls, pending, order,
                   raised_at, np_failed, np_sent, started, now_playing, nsvc, calc_in,
                   calc_out, enough_in, enough_out>>

(***************************************************************************)
(* with db_connect(...) as con: an exception leaving the block rolls the   *)
(* transaction back, a normal exit commits it; the process then ends       *)
(***************************************************************************)
EndOfProcess(i) ==
    /\ status' = [status EXCEPT ![i] = NoStatus]
    /\ svc' = [svc EXCEPT ![i] = 0]
    /\ status_updates' = NoFrames
    /\ scrobbles' = NoFrames
    /\ leftovers' = NoFrames
    /\ failed_scrobbles' = NoFrames
    /\ idx' = 0
    /\ calls' = <<>>

Rollback(i) ==
    /\ lock' = 0
    /\ tx' = db
    /\ pc' = [pc EXCEPT ![i] = "fatal"]
    /\ raised_at' = pc[i]
    /\ EndOfProcess(i)
    /\ UNCHANGED <<db, now, attempts, pending, order, np_failed, np_sent, started,
                   now_playing, nsvc, calc_in, calc_out, enough_in,
                   enough_out>>

\* mutant: the process ends without the transaction being ended
CommitHolds(i) ==
    /\ pc[i] = "commit"
    /\ db' = tx
    /\ pc' = [pc EXCEPT ![i] = "done"]
    /\ pending' = [s \in Services |->
                      pending[s] \cup Range(failed_scrobbles[s])]
    /\ EndOfProcess(i)
    /\ UNCHANGED <<tx, lock, now, attempts, order, raised_at, np_failed,
                   np_sent, started, now_playing, nsvc, calc_in, calc_out,
                   enough_in, enough_out>>

Commit(i) ==
    /\ pc[i] = "commit"
    /\ db' = tx
    /\ lock' = 0
    /\ pc' = [pc EXCEPT ![i] = "done"]
    /\ pending' = [s \in Services |->
                      pending[s] \cup Range(failed_scrobbles[s])]
    /\ EndOfProcess(i)
    /\ UNCHANGED <<tx, now, attempts, order, raised_at, np_failed, np_sent, started,
                   now_playing, nsvc, calc_in, calc_out, enough_in,
                   enough_out>>

\* a statement of the open transaction raises sqlite3.Error
DbFail(i) ==
    /\ pc[i] \in {"clear", "save"}
    /\ Rollback(i)

(***************************************************************************)
(* run_update_scrobble_state                                               *)
(***************************************************************************)
\* mutant: the new status is saved into the table of every service
LoadAppendAll(i) ==
    /\ pc[i] = "load"
    /\ ~get_status_updates_raises(tx[svc[i]])
    /\ LET s == svc[i]
       IN  /\ status_updates' =
                 [status_updates EXCEPT
                    ![s] = Append(get_status_updates(tx[s]), status[i])]
           /\ tx' = [o \in Services |->
                       save_status_updates(tx[o], <<status[i]>>)]
    /\ pc' = [pc EXCEPT ![i] = "calc"]
    /\ UNCHANGED <<db, lock, now, status, attempts, svc, scrobbles, leftovers,
                   failed_scrobbles, idx, calls, pending, order, raised_at,
                   np_failed, np_sent, started, now_playing, nsvc, calc_in,
                   calc_out, enough_in, enough_out>>

\* create, get_status_updates, append, save_status_updates([new])
LoadAppend(i) ==
    /\ pc[i] = "load"
    /\ ~get_status_updates_raises(tx[svc[i]])
    /\ LET s == svc[i]
       IN  /\ status_updates' =
                 [status_updates EXCEPT
                    ![s] = Append(get_status_updates(tx[s]), status[i])]
           /\ tx' = [tx EXCEPT ![s] = save_status_updates(@, <<status[i]>>)]
    /\ pc' = [pc EXCEPT ![i] = "calc"]
    /\ UNCHANGED <<db, lock, now, status, attempts, svc, scrobbles, leftovers,
                   failed_scrobbles, idx, calls, pending, order, raised_at,
                   np_failed, np_sent, started, now_playing, nsvc, calc_in,
                   calc_out, enough_in, enough_out>>

\* mutant: a row that does not load is skipped and the cycle goes on
LoadSkip(i) ==
    /\ pc[i] = "load"
    /\ get_status_updates_raises(tx[svc[i]])
    /\ LET s == svc[i]
       IN  /\ status_updates' =
                 [status_updates EXCEPT
                    ![s] = Append(SelectSeq(tx[s], isinstance_Status),
                                  status[i])]
           /\ tx' = [tx EXCEPT ![s] = save_status_updates(@, <<status[i]>>)]
    /\ pc' = [pc EXCEPT ![i] = "calc"]
    /\ UNCHANGED <<db, lock, now, status, attempts, svc, scrobbles, leftovers,
                   failed_scrobbles, idx, calls, pending, order, raised_at,
                   np_failed, np_sent, started, now_playing, nsvc, calc_in,
                   calc_out, enough_in, enough_out>>

\* get_status_updates raises: the exception leaves run_update_scrobble_state,
\* the loop over the services and the with block
LoadFail(i) ==
    /\ pc[i] = "load"
    /\ get_status_updates_raises(tx[svc[i]])
    /\ Rollback(i)

\* position after the batch loop's range(0, len(scrobbles), size) test
AfterBatch(i0, n) == IF i0 < n THEN "scrobble" ELSE "clear"

Calc(i) ==
    /\ pc[i] = "calc"
    /\ LET s == svc[i]
           r == calculate_scrobbles(status_updates[s])
       IN  IF r.raised
           THEN Rollback(i)
           ELSE /\ scrobbles' = [scrobbles EXCEPT ![s] = r.scrobbles]
                /\ leftovers' = [leftovers EXCEPT ![s] = r.leftovers]
                /\ failed_scrobbles' = [failed_scrobbles EXCEPT ![s] = <<>>]
                /\ idx' = 0
                /\ pc' = [pc EXCEPT ![i] = AfterBatch(0, Len(r.scrobbles))]
                /\ UNCHANGED <<db, tx, lock, now, status, attempts, svc,
                               status_updates, calls, pending, order,
                               raised_at, np_failed, np_sent, started, now_playing,
                               nsvc, calc_in, calc_out, enough_in, enough_out>>

\* scrobbles[i:i+scrobble_batch_size]
Batch(s) ==
    LET n == Len(scrobbles[s])
        hi == IF idx + scrobble_batch_size < n
              THEN idx + scrobble_batch_size ELSE n
    IN  SubSeq(scrobbles[s], idx + 1, hi)

\* http.scrobble sends the playing updates of the batch
playing_updates(b) ==
    LET F[k \in 0..Len(b)] ==
            IF k = 0 THEN <<>>
            ELSE IF b[k].status = STATUS_PLAYING
                 THEN Append(F[k - 1], b[k]) ELSE F[k - 1]
    IN  F[Len(b)]

ScrobbleOk(i) ==
    /\ pc[i] = "scrobble"
    /\ LET s == svc[i]
           b == Batch(s)
       IN  /\ calls' = IF playing_updates(b) = <<>> THEN calls
                       ELSE Append(calls, [service |-> s,
                                           tracks |-> playing_updates(b),
                                           ok |-> TRUE])
           /\ pending' = [pending EXCEPT ![s] = @ \ Range(playing_updates(b))]
           /\ idx' = idx + scrobble_batch_size
           /\ pc' = [pc EXCEPT
                       ![i] = AfterBatch(idx + scrobble_batch_size,
                                         Len(scrobbles[s]))]
    /\ UNCHANGED <<db, tx, lock, now, status, attempts, svc, status_updates,
                   scrobbles, leftovers, failed_scrobbles, order, raised_at,
                   np_failed, np_sent, started, now_playing, nsvc, calc_in,
                   calc_out, enough_in, enough_out>>

\* mutant: only the failed batch is kept, the later ones are forgotten
ScrobbleFailOnlyBatch(i) ==
    /\ pc[i] = "scrobble"
    /\ LET s == svc[i]
           b == Batch(s)
       IN  /\ playing_updates(b) # <<>>
           /\ calls' = Append(calls, [service |-> s,
                                      tracks |-> playing_updates(b),
                                      ok |-> FALSE])
           /\ failed_scrobbles' = [failed_scrobbles EXCEPT ![s] = @ \o b]
    /\ pc' = [pc EXCEPT ![i] = "clear"]
    /\ UNCHANGED <<db, tx, lock, now, status, attempts, svc, status_updates,
                   scrobbles, leftovers, idx, pending, order, raised_at,
                   np_failed, np_sent, started, now_playing, nsvc, calc_in,
                   calc_out, enough_in, enough_out>>

\* mutant: no break, the loop goes on to the next batch
ScrobbleFailNoBreak(i) ==
    /\ pc[i] = "scrobble"
    /\ LET s == svc[i]
           b == Batch(s)
       IN  /\ playing_updates(b) # <<>>
           /\ calls' = Append(calls, [service |-> s,
                                      tracks |-> playing_updates(b),
                                      ok |-> FALSE])
           /\ failed_scrobbles' = [failed_scrobbles EXCEPT ![s] = @ \o b]
           /\ idx' = idx + scrobble_batch_size
           /\ pc' = [pc EXCEPT
                       ![i] = AfterBatch(idx + scrobble_batch_size,
                                         Len(scrobbles[s]))]
    /\ UNCHANGED <<db, tx, lock, now, status, attempts, svc, status_updates,
                   scrobbles, leftovers, pending, order, raised_at,
                   np_failed, np_sent, started, now_playing, nsvc, calc_in,
                   calc_out, enough_in, enough_out>>

\* mutant: the exception is not caught and leaves the with block
ScrobbleFailRaises(i) ==
    /\ pc[i] = "scrobble"
    /\ playing_updates(Batch(svc[i])) # <<>>
    /\ Rollback(i)

\* the request raises: failed_scrobbles.extend(scrobbles[i:]); break
ScrobbleFail(i) ==
    /\ pc[i] = "scrobble"
    /\ LET s == svc[i]
           b == Batch(s)
       IN  /\ playing_updates(b) # <<>>
           /\ calls' = Append(calls, [service |-> s,
                                      tracks |-> playing_updates(b),
                                      ok |-> FALSE])
           /\ failed_scrobbles' =
                 [failed_scrobbles EXCEPT
                    ![s] = @ \o SubSeq(scrobbles[s], idx + 1,
                                       Len(scrobbles[s]))]
    /\ pc' = [pc EXCEPT ![i] = "clear"]
    /\ UNCHANGED <<db, tx, lock, now, status, attempts, svc, status_updates,
                   scrobbles, leftovers, idx, pending, order, raised_at,
                   np_failed, np_sent, started, now_playing, nsvc, calc_in,
                   calc_out, enough_in, enough_out>>

\* mutant: the DELETE is committed at once
ClearCommits(i) ==
    /\ pc[i] = "clear"
    /\ tx' = [tx EXCEPT ![svc[i]] = clear(@)]
    /\ db' = [db EXCEPT ![svc[i]] = clear(@)]
    /\ pc' = [pc EXCEPT ![i] = "save"]
    /\ UNCHANGED <<lock, now, status, attempts, svc, status_updates,
                   scrobbles, leftovers, failed_scrobbles, idx, calls,
                   pending, order, raised_at, np_failed, np_sent, started,
                   now_playing, nsvc, calc_in, calc_out, enough_in,
                   enough_out>>

Clear(i) ==
    /\ pc[i] = "clear"
    /\ tx' = [tx EXCEPT ![svc[i]] = clear(@)]
    /\ pc' = [pc EXCEPT ![i] = "save"]
    /\ UNCHANGED <<db, lock, now, status, attempts, svc, status_updates,
                   scrobbles, leftovers, failed_scrobbles, idx, calls,
                   pending, order, raised_at, np_failed, np_sent, started,
                   now_playing, nsvc, calc_in, calc_out, enough_in,
                   enough_out>>

Save(i) ==
    /\ pc[i] = "save"
    /\ LET s == svc[i]
       IN  tx' = [tx EXCEPT
                    ![s] = save_status_updates(
                               @, failed_scrobbles[s] \o leftovers[s])]
    /\ pc' = [pc EXCEPT ![i] = "now_playing"]
    /\ UNCHANGED <<db, lock, now, status, attempts, svc, status_updates,
                   scrobbles, leftovers, failed_scrobbles, idx, calls,
                   pending, order, raised_at, np_failed, np_sent, started,
                   now_playing, nsvc, calc_in, calc_out, enough_in,
                   enough_out>>

(***************************************************************************)
(* main: http_env.send_now_playing(status), then the next service          *)
(***************************************************************************)
\* the for loop over app_config.services; leaving it leaves the with block
NextService(i) ==
    IF svc[i] < nsvc
    THEN /\ svc' = [svc EXCEPT ![i] = @ + 1]
         /\ pc' = [pc EXCEPT ![i] = "load"]
    ELSE /\ pc' = [pc EXCEPT ![i] = "commit"]
         /\ UNCHANGED svc

\* send_now_playing returns early unless the service wants the push and
\* the status is playing
sends_now_playing(i) == now_playing /\ status[i].status = STATUS_PLAYING

\* mutant: the now-playing request is sent like a scrobble request
ignore_request_fail_off == FALSE

\* send_req(ignore_request_fail=True, method=SCROBBLER_NOW_PLAYING, ...)
ignore_request_fail == TRUE

\* no request, or a request that is answered
NowPlayingOk(i) ==
    /\ pc[i] = "now_playing"
    /\ np_sent' = IF sends_now_playing(i) THEN np_sent \cup {svc[i]}
                  ELSE np_sent
    /\ NextService(i)
    /\ UNCHANGED <<db, tx, lock, now, status, attempts, status_updates,
                   scrobbles, leftovers, failed_scrobbles, idx, calls,
                   pending, order, raised_at, np_failed, started,
                   now_playing, nsvc, calc_in, calc_out, enough_in,
                   enough_out>>

\* urlopen raises inside send_req
NowPlayingFail(i) ==
    /\ pc[i] = "now_playing"
    /\ sends_now_playing(i)
    /\ np_failed' = TRUE
    /\ np_sent' = np_sent \cup {svc[i]}
    /\ IF ignore_request_fail
       THEN /\ NextService(i)
            /\ UNCHANGED <<db, tx, lock, now, status, attempts,
                           status_updates, scrobbles, leftovers,
                           failed_scrobbles, idx, calls, pending, order,
                           raised_at, started, now_playing, nsvc, calc_in,
                           calc_out, enough_in, enough_out>>
       ELSE /\ lock' = 0
            /\ tx' = db
            /\ pc' = [pc EXCEPT ![i] = "fatal"]
            /\ raised_at' = pc[i]
            /\ EndOfProcess(i)
            /\ UNCHANGED <<db, now, attempts, pending, order, started,
                           now_playing, nsvc, calc_in, calc_out, enough_in,
                           enough_out>>

(***************************************************************************)
(* Specification: overlapping invocations on one database, one service     *)
(***************************************************************************)
Init ==
    /\ ProgInit
    /\ nsvc = 1
    /\ now_playing = TRUE
    /\ calc_in = <<>>
    /\ calc_out = <<>>
    /\ enough_in = <<>>
    /\ enough_out = <<>>

\* invocation i is the i-th to start
StartConc(i) ==
    /\ pc[i] = "idle"
    /\ i = started + 1
    /\ parse_cmus_status_line(i, TracksConc, DeltasConc)

Next ==
    \E i \in Invs :
        \/ StartConc(i)
        \/ BeginImmediate(i)
        \/ BeginBusy(i)
        \/ LoadAppend(i)
        \/ Calc(i)
        \/ ScrobbleOk(i)
        \/ ScrobbleFail(i)
        \/ Clear(i)
        \/ Save(i)
        \/ NowPlayingOk(i)
        \/ NowPlayingFail(i)
        \/ Commit(i)
        \/ DbFail(i)

Spec == Init /\ [][Next]_vars

(***************************************************************************)
(* Specification: overlapping invocations that all run on once started:   *)
(* the operating system schedules each process, a statement or a request   *)
(* returns or raises, and time.sleep returns                               *)
(***************************************************************************)
StartFair(i) ==
    /\ pc[i] = "idle"
    /\ i = started + 1
    /\ parse_cmus_status_line(i, TracksFair, DeltasConc)

Proc(i) ==
    \/ BeginImmediate(i)
    \/ BeginBusy(i)
    \/ LoadAppend(i)
    \/ Calc(i)
    \/ ScrobbleOk(i)
    \/ ScrobbleFail(i)
    \/ Clear(i)
    \/ Save(i)
    \/ NowPlayingOk(i)
    \/ NowPlayingFail(i)
    \/ Commit(i)
    \/ DbFail(i)

NextFair == \E i \in Invs : StartFair(i) \/ Proc(i)

SpecFair == Init /\ [][NextFair]_vars /\ \A i \in Invs : WF_vars(Proc(i))

(***************************************************************************)
(* Specification: invocations one after another (no overlap): each starts  *)
(* when the one before it has ended                                        *)
(***************************************************************************)
InitSeq ==
    /\ ProgInit
    /\ nsvc = 1
    /\ now_playing = TRUE
    /\ calc_in = <<>>
    /\ calc_out = <<>>
    /\ enough_in = <<>>
    /\ enough_out = <<>>

StartSeq ==
    /\ pc[1] \in {"idle"} \cup Ended
    /\ started < MaxSeq
    /\ parse_cmus_status_line(1, TracksSeq, Deltas)

NextSeq ==
    \/ StartSeq
    \/ BeginImmediate(1)
    \/ LoadAppend(1)
    \/ Calc(1)
    \/ ScrobbleOk(1)
    \/ ScrobbleFail(1)
    \/ Clear(1)
    \/ Save(1)
    \/ NowPlayingOk(1)
    \/ NowPlayingFail(1)
    \/ Commit(1)
    \/ DbFail(1)

SpecSeq == InitSeq /\ [][NextSeq]_vars

(***************************************************************************)
(* Specification: invocations one after another with two services          *)
(* configured, each with its own table                                     *)
(***************************************************************************)
InitMulti ==
    /\ ProgInit
    /\ nsvc = 2
    /\ now_playing = TRUE
    /\ calc_in = <<>>
    /\ calc_out = <<>>
    /\ enough_in = <<>>
    /\ enough_out = <<>>

StartMulti ==
    /\ pc[1] \in {"idle"} \cup Ended
    /\ started < MaxMulti
    /\ parse_cmus_status_line(1, TracksSeq, Deltas)

NextMulti ==
    \/ StartMulti
    \/ BeginImmediate(1)
    \/ LoadAppend(1)
    \/ Calc(1)
    \/ ScrobbleOk(1)
    \/ ScrobbleFail(1)
    \/ Clear(1)
    \/ Save(1)
    \/ NowPlayingOk(1)
    \/ NowPlayingFail(1)
    \/ Commit(1)
    \/ DbFail(1)

SpecMulti == InitMulti /\ [][NextMulti]_vars

(***************************************************************************)
(* Specification: invocations one after another with two services          *)
(* configured, on a database file in which another program may leave a     *)
(* row that is not a pickled Status                                        *)
(***************************************************************************)
TracksLoad == {Track("A", 2)}

InitLoad ==
    /\ ProgInit
    /\ nsvc = 2
    /\ now_playing = TRUE
    /\ calc_in = <<>>
    /\ calc_out = <<>>
    /\ enough_in = <<>>
    /\ enough_out = <<>>

StartLoad ==
    /\ pc[1] \in {"idle"} \cup Ended
    /\ started < MaxLoad
    /\ parse_cmus_status_line(1, TracksLoad, DeltasConc)

\* between two invocations a row that is no Status gets into a table
ForeignRow ==
    /\ pc[1] \in {"idle"} \cup Ended
    /\ lock = 0
    /\ Cardinality({s \in 1..nsvc : get_status_updates_raises(db[s])})
          < MaxForeign
    /\ \E s \in 1..nsvc :
          /\ ~get_status_updates_raises(db[s])
          /\ db' = [db EXCEPT ![s] = Append(@, NotAStatus)]
          /\ tx' = [db EXCEPT ![s] = Append(@, NotAStatus)]
    /\ UNCHANGED <<lock, now, pc, status, attempts, svc, status_updates,
                   scrobbles, leftovers, failed_scrobbles, idx, calls,
                   pending, order, raised_at, np_failed, np_sent, started,
                   now_playing, nsvc, calc_in, calc_out, enough_in,
                   enough_out>>

NextLoad ==
    \/ StartLoad
    \/ ForeignRow
    \/ BeginImmediate(1)
    \/ LoadAppend(1)
    \/ LoadFail(1)
    \/ Calc(1)
    \/ ScrobbleOk(1)
    \/ ScrobbleFail(1)
    \/ Clear(1)
    \/ Save(1)
    \/ NowPlayingOk(1)
    \/ NowPlayingFail(1)
    \/ Commit(1)
    \/ DbFail(1)

SpecLoad == InitLoad /\ [][NextLoad]_vars

(***************************************************************************)
(* Specification: calculate_scrobbles on its own, on every input of up to  *)
(* MaxLen status updates in time order                                     *)
(***************************************************************************)
InitCalc ==
    /\ ProgInit
    /\ nsvc = 1
    /\ now_playing = TRUE
    /\ calc_in = <<>>
    /\ calc_out = <<>>
    /\ enough_in = <<>>
    /\ enough_out = <<>>

CalcAdd ==
    /\ calc_out = <<>>
    /\ Len(calc_in) < MaxLen
    /\ \E tr \in TracksCalc, st \in Statuses, d \in Deltas :
          /\ now' = now + d
          /\ calc_in' = Append(calc_in,
                               Status(st, tr.file, tr.duration, now + d))
    /\ UNCHANGED <<db, tx, lock, pc, status, attempts, svc, status_updates,
                   scrobbles, leftovers, failed_scrobbles, idx, calls,
                   pending, order, raised_at, np_failed, np_sent, started,
                   now_playing, nsvc, calc_out, enough_in, enough_out>>

CalcRun ==
    /\ calc_out = <<>>
    /\ calc_out' = <<calculate_scrobbles(calc_in)>>
    /\ UNCHANGED <<progVars, calc_in, enough_in, enough_out>>

NextCalc == CalcAdd \/ CalcRun

SpecCalc == InitCalc /\ [][NextCalc]_vars

(***************************************************************************)
(* Specification: calculate_scrobbles on its own, on longer inputs: up to  *)
(* MaxRun status updates of two tracks, one second apart                   *)
(***************************************************************************)
TracksRun == {Track("A", 4), Track("B", 2)}

InitRun ==
    /\ ProgInit
    /\ nsvc = 1
    /\ now_playing = TRUE
    /\ calc_in = <<>>
    /\ calc_out = <<>>
    /\ enough_in = <<>>
    /\ enough_out = <<>>

CalcAddRun ==
    /\ calc_out = <<>>
    /\ Len(calc_in) < MaxRun
    /\ \E tr \in TracksRun, st \in Statuses :
          /\ now' = now + 1
          /\ calc_in' = Append(calc_in,
                               Status(st, tr.file, tr.duration, now + 1))
    /\ UNCHANGED <<db, tx, lock, pc, status, attempts, svc, status_updates,
                   scrobbles, leftovers, failed_scrobbles, idx, calls,
                   pending, order, raised_at, np_failed, np_sent, started,
                   now_playing, nsvc, calc_out, enough_in, enough_out>>

NextRun == CalcAddRun \/ CalcRun

SpecRun == InitRun /\ [][NextRun]_vars

(***************************************************************************)
(* Specification: calculate_scrobbles on its own, on inputs of up to       *)
(* MaxPerm status updates with distinct timestamps, in any order           *)
(***************************************************************************)
InitPerm ==
    /\ ProgInit
    /\ nsvc = 1
    /\ now_playing = TRUE
    /\ calc_in = <<>>
    /\ calc_out = <<>>
    /\ enough_in = <<>>
    /\ enough_out = <<>>

CalcAddPerm ==
    /\ calc_out = <<>>
    /\ Len(calc_in) < MaxPerm
    /\ \E tr \in TracksRun, st \in Statuses :
          /\ now' = now + 1
          /\ calc_in' = Append(calc_in,
                               Status(st, tr.file, tr.duration, now + 1))
    /\ UNCHANGED <<db, tx, lock, pc, status, attempts, svc, status_updates,
                   scrobbles, leftovers, failed_scrobbles, idx, calls,
                   pending, order, raised_at, np_failed, np_sent, started,
                   now_playing, nsvc, calc_out, enough_in, enough_out>>

\* the caller hands the status updates over in another order than that of
\* their timestamps
CalcShuffle ==
    /\ calc_out = <<>>
    /\ Len(calc_in) >= 2
    /\ \A k \in 2..Len(calc_in) :
          calc_in[k - 1].cur_time < calc_in[k].cur_time
    /\ \E p \in Permutations(1..Len(calc_in)) :
          /\ \E k \in 1..Len(calc_in) : p[k] # k
          /\ calc_in' = [k \in 1..Len(calc_in) |-> calc_in[p[k]]]
    /\ UNCHANGED <<progVars, calc_out, enough_in, enough_out>>

NextPerm == CalcAddPerm \/ CalcShuffle \/ CalcRun

SpecPerm == InitPerm /\ [][NextPerm]_vars

(***************************************************************************)
(* Specification: calculate_scrobbles called a second time on the input it *)
(* was just given, no status update having arrived in between              *)
(***************************************************************************)
InitAgain ==
    /\ ProgInit
    /\ nsvc = 1
    /\ now_playing = TRUE
    /\ calc_in = <<>>
    /\ calc_out = <<>>
    /\ enough_in = <<>>
    /\ enough_out = <<>>

CalcAddAgain ==
    /\ calc_out = <<>>
    /\ Len(calc_in) < MaxAgain
    /\ \E tr \in TracksRun, st \in Statuses :
          /\ now' = now + 1
          /\ calc_in' = Append(calc_in,
                               Status(st, tr.file, tr.duration, now + 1))
    /\ UNCHANGED <<db, tx, lock, pc, status, attempts, svc, status_updates,
                   scrobbles, leftovers, failed_scrobbles, idx, calls,
                   pending, order, raised_at, np_failed, np_sent, started,
                   now_playing, nsvc, calc_out, enough_in, enough_out>>

\* the second call: its result is kept next to that of the first
CalcAgain ==
    /\ Len(calc_out) = 1
    /\ calc_out' = Append(calc_out, calculate_scrobbles(calc_in))
    /\ UNCHANGED <<progVars, calc_in, enough_in, enough_out>>

\* a third call, on the leftovers of the first: the queue as the cycle
\* wrote it back, decided again before any status update arrives
CalcLeftovers ==
    /\ Len(calc_out) = 2
    /\ ~calc_out[1].raised
    /\ calc_out' = Append(calc_out, calculate_scrobbles(calc_out[1].leftovers))
    /\ UNCHANGED <<progVars, calc_in, enough_in, enough_out>>

NextAgain == CalcAddAgain \/ CalcRun \/ CalcAgain \/ CalcLeftovers

SpecAgain == InitAgain /\ [][NextAgain]_vars

(***************************************************************************)
(* Specification: calculate_scrobbles on its own, on the status updates of *)
(* a listening session: the player starts a track, and then pauses it,     *)
(* resumes it, stops, or starts a track (the same again or another one)    *)
(***************************************************************************)
InitPlayer ==
    /\ ProgInit
    /\ nsvc = 1
    /\ now_playing = TRUE
    /\ calc_in = <<>>
    /\ calc_out = <<>>
    /\ enough_in = <<>>
    /\ enough_out = <<>>

\* what the player may report after the status update prev
PlayerMayReport(prev, st, f) ==
    CASE prev.status = STATUS_PLAYING ->
             st = STATUS_PLAYING \/ f = prev.file
      [] prev.status = STATUS_PAUSED ->
             st = STATUS_PLAYING \/ (st = STATUS_STOPPED /\ f = prev.file)
      [] OTHER -> st = STATUS_PLAYING

CalcAddPlayer ==
    /\ calc_out = <<>>
    /\ Len(calc_in) < MaxPlayer
    /\ \E tr \in TracksRun, st \in Statuses :
          /\ IF calc_in = <<>> THEN st = STATUS_PLAYING
             ELSE PlayerMayReport(calc_in[Len(calc_in)], st, tr.file)
          /\ now' = now + 1
          /\ calc_in' = Append(calc_in,
                               Status(st, tr.file, tr.duration, now + 1))
    /\ UNCHANGED <<db, tx, lock, pc, status, attempts, svc, status_updates,
                   scrobbles, leftovers, failed_scrobbles, idx, calls,
                   pending, order, raised_at, np_failed, np_sent, started,
                   now_playing, nsvc, calc_out, enough_in, enough_out>>

NextPlayer == CalcAddPlayer \/ CalcRun

SpecPlayer == InitPlayer /\ [][NextPlayer]_vars

(***************************************************************************)
(* Specification: calculate_scrobbles on its own, on the status updates of *)
(* a listening session in which one of the tracks has no duration tag      *)
(***************************************************************************)
TracksBare == {Track("B", 2), Track("C", NoDuration)}

InitBare ==
    /\ ProgInit
    /\ nsvc = 1
    /\ now_playing = TRUE
    /\ calc_in = <<>>
    /\ calc_out = <<>>
    /\ enough_in = <<>>
    /\ enough_out = <<>>

CalcAddBare ==
    /\ calc_out = <<>>
    /\ Len(calc_in) < MaxBare
    /\ \E tr \in TracksBare, st \in Statuses :
          /\ IF calc_in = <<>> THEN st = STATUS_PLAYING
             ELSE PlayerMayReport(calc_in[Len(calc_in)], st, tr.file)
          /\ now' = now + 1
          /\ calc_in' = Append(calc_in,
                               Status(st, tr.file, tr.duration, now + 1))
    /\ UNCHANGED <<db, tx, lock, pc, status, attempts, svc, status_updates,
                   scrobbles, leftovers, failed_scrobbles, idx, calls,
                   pending, order, raised_at, np_failed, np_sent, started,
                   now_playing, nsvc, calc_out, enough_in, enough_out>>

NextBare == CalcAddBare \/ CalcRun

SpecBare == InitBare /\ [][NextBare]_vars

(***************************************************************************)
(* Specification: the cycles of one service, one per status update, in the *)
(* order of their timestamps and with every scrobble request answered.     *)
(* calc_in holds the status updates that arrived so far; calc_out[1] holds *)
(* the plays submitted so far, as scrobbles, and the table of the service, *)
(* as leftovers                                                            *)
(***************************************************************************)
InitIncr ==
    /\ ProgInit
    /\ nsvc = 1
    /\ now_playing = TRUE
    /\ calc_in = <<>>
    /\ calc_out = <<[scrobbles |-> <<>>, leftovers |-> <<>>,
                     raised |-> FALSE]>>
    /\ enough_in = <<>>
    /\ enough_out = <<>>

\* run_update_scrobble_state with no failed batch: the plays are submitted
\* and the table is rewritten to failed_scrobbles+leftovers = leftovers
CycleOk ==
    /\ Len(calc_in) < MaxIncr
    /\ \E tr \in TracksRun, st \in Statuses :
          LET new_status_update == Status(st, tr.file, tr.duration, now + 1)
              rows == calc_out[1].leftovers
              r == calculate_scrobbles(
                       Append(get_status_updates(rows), new_status_update))
          IN  /\ ~r.raised
              /\ now' = now + 1
              /\ calc_in' = Append(calc_in, new_status_update)
              /\ calc_out' =
                    <<[scrobbles |-> calc_out[1].scrobbles \o r.scrobbles,
                       leftovers |->
                           save_status_updates(
                               clear(save_status_updates(
                                         rows, <<new_status_update>>)),
                               <<>> \o r.leftovers),
                       raised |-> FALSE]>>
    /\ UNCHANGED <<db, tx, lock, pc, status, attempts, svc, status_updates,
                   scrobbles, leftovers, failed_scrobbles, idx, calls,
                   pending, order, raised_at, np_failed, np_sent, started,
                   now_playing, nsvc, enough_in, enough_out>>

NextIncr == CycleOk

SpecIncr == InitIncr /\ [][NextIncr]_vars

(***************************************************************************)
(* Specification: has_played_enough on its own                             *)
(***************************************************************************)
EnoughStarts == {0, 1}
EnoughSpans == {0, 1, 2, 3, secs_thresh - 1, secs_thresh, secs_thresh + 1}
EnoughDurations ==
    {NoDuration, 0, 1, 2, 4, 5, 2 * secs_thresh, 2 * secs_thresh + 1, 600}

InitEnough ==
    /\ ProgInit
    /\ nsvc = 1
    /\ now_playing = TRUE
    /\ calc_in = <<>>
    /\ calc_out = <<>>
    /\ enough_in = <<>>
    /\ enough_out = <<>>

EnoughArgs ==
    /\ enough_in = <<>>
    /\ \E st \in EnoughStarts, sp \in EnoughSpans, d \in EnoughDurations,
          c \in 0..MaxCarried :
          enough_in' = <<[start_ts |-> st, end_ts |-> st + sp,
                          duration_value |-> d, played_before_pause |-> c]>>
    /\ UNCHANGED <<progVars, calc_in, calc_out, enough_out>>

\* the call returns a truth value or raises ZeroDivisionError
EnoughRun ==
    /\ enough_in # <<>>
    /\ enough_out = <<>>
    /\ LET a == enough_in[1]
       IN  enough_out' =
             IF has_played_enough_raises(a.duration_value)
             THEN <<[raised |-> TRUE, value |-> FALSE]>>
             ELSE <<[raised |-> FALSE,
                     value |-> has_played_enough(
                                   a.start_ts, a.end_ts, a.duration_value,
                                   a.played_before_pause)]>>
    /\ UNCHANGED <<progVars, calc_in, calc_out, enough_in>>

NextEnough == EnoughArgs \/ EnoughRun

SpecEnough == InitEnough /\ [][NextEnough]_vars

(***************************************************************************)
(* Properties                                                              *)
(***************************************************************************)
Count(s, e) == Cardinality({k \in 1..Len(s) : s[k] = e})

CalcDone == calc_out # <<>> /\ ~calc_out[1].raised

\* an event that continues a play/pause run of its track, so that it may be
\* merged into the run's first event
MergedIntoRun(sus, k) ==
    /\ k > 1
    /\ sus[k].file = sus[k - 1].file
    /\ {sus[k].status, sus[k - 1].status} = {STATUS_PLAYING, STATUS_PAUSED}

C2_SerializedTransactions ==
    /\ Cardinality({i \in Invs : pc[i] \in InTx}) <= 1
    /\ \A i \in Invs : pc[i] \in InTx => lock = i
    /\ \A i \in Invs :
          pc[i] \in AfterAppend =>
              status_updates[svc[i]] = Append(db[svc[i]], status[i])

\* C2 witness: one invocation has appended its update and not yet rewritten
\* the queue, so its table differs from the committed one, and another
\* invocation has been refused the lock
C2_Witness ==
    \E i, j \in Invs :
        /\ pc[i] = "clear"
        /\ tx[1] # db[1]
        /\ pc[j] = "connect"
        /\ attempts[j] >= 1

\* C3 as claimed: an invocation that started later reads only after every
\* invocation that started before it has ended its cycle.
C3_StartOrderIsApplyOrder ==
    \A x, y \in Invs :
        (x < y /\ pc[y] \in AfterAppend) => pc[x] \in Ended

\* C3 as amended: cycles are applied in the order in which the invocations
\* acquire the write transaction: all that acquired it before the latest
\* one have committed or rolled back.
C3_AcquisitionOrderIsApplyOrder ==
    \A k \in 1..(Len(order) - 1) : pc[order[k]] \in Ended

\* C3 witness: the invocation that started first was refused, slept, and
\* reads after the one that started second has ended
C3_Witness ==
    /\ order = <<2, 1>>
    /\ attempts[1] >= 1
    /\ pc[1] \in AfterAppend
    /\ pc[2] = "done"

\* number of plays of service s that the open transaction has submitted
RECURSIVE SubmittedOk(_, _)
SubmittedOk(cs, s) ==
    IF cs = <<>> THEN 0
    ELSE SubmittedOk(SubSeq(cs, 1, Len(cs) - 1), s)
         + (IF cs[Len(cs)].service = s /\ cs[Len(cs)].ok
            THEN Len(cs[Len(cs)].tracks) ELSE 0)

SubmissionFailed(cs, s) ==
    \E k \in 1..Len(cs) : cs[k].service = s /\ ~cs[k].ok

\* C4: once the cycle has rewritten the queue, the queue is the plays from
\* the first play of the failed batch on, followed by the leftovers, and
\* holds no play of a batch that was submitted; without a failure it is
\* the leftovers.
C4_RetainedAfterFailure ==
    \A i \in Invs :
        pc[i] \in {"now_playing", "commit"} =>
            LET s == svc[i]
                n == SubmittedOk(calls, s)
            IN  /\ tx[s] = (IF SubmissionFailed(calls, s)
                            THEN SubSeq(scrobbles[s], n + 1,
                                        Len(scrobbles[s]))
                            ELSE <<>>) \o leftovers[s]
                /\ ~SubmissionFailed(calls, s) => n = Len(scrobbles[s])
                /\ \A k \in 1..Len(calls) :
                      calls[k].service = s /\ calls[k].ok =>
                          Range(calls[k].tracks) \cap Range(tx[s]) = {}

\* C4 witness: the first batch was submitted, the second failed, and the
\* cycle has leftovers
C4_Witness ==
    /\ pc[1] = "commit"
    /\ Len(calls) >= 2
    /\ calls[1].ok
    /\ ~calls[Len(calls)].ok
    /\ leftovers[1] # <<>>

\* C5 as claimed: a play retained because its submission failed stays in
\* the queue until it has been submitted.
C5_RetainedPlayStaysQueued ==
    \A s \in Services : pending[s] \subseteq Range(db[s])

RECURSIVE Tracks(_)
Tracks(cs) ==
    IF cs = <<>> THEN <<>>
    ELSE Tracks(SubSeq(cs, 1, Len(cs) - 1)) \o cs[Len(cs)].tracks

\* C6: the calls of a cycle carry consecutive batches of the plays list, in
\* its order, each of scrobble_batch_size plays but the last one of the
\* list; only the last call can be a failed one.
C6_OrderedBatches ==
    \A i \in Invs :
        pc[i] \in {"scrobble", "clear", "save", "now_playing", "commit"} =>
            LET s == svc[i]
                sent == Tracks(calls)
            IN  /\ Len(sent) <= Len(scrobbles[s])
                /\ sent = SubSeq(scrobbles[s], 1, Len(sent))
                /\ \A k \in 1..Len(calls) :
                      /\ Len(calls[k].tracks) \in 1..scrobble_batch_size
                      /\ k < Len(calls) =>
                            /\ calls[k].ok
                            /\ Len(calls[k].tracks) = scrobble_batch_size
                /\ (calls # <<>> /\ ~calls[Len(calls)].ok) =>
                      pc[i] # "scrobble"
                /\ pc[i] = "scrobble" => Len(sent) = idx

\* C6 witness: a batch was submitted, the next failed, and a later batch
\* was not tried
C6_Witness ==
    /\ pc[1] = "clear"
    /\ Len(calls) = 2
    /\ calls[1].ok
    /\ ~calls[2].ok
    /\ Len(Tracks(calls)) < Len(scrobbles[1])

\* C7: BEGIN IMMEDIATE fails at most retry_attempts times; a failure short
\* of that is followed by another attempt; the last one ends the
\* invocation, which has changed nothing; a success gives it the lock.
C7_BoundedRetry ==
    [][\A i \in Invs :
          pc[i] = "connect" =>
              /\ attempts'[i] <= retry_attempts
              /\ (attempts'[i] > attempts[i]
                    /\ attempts'[i] < retry_attempts) => pc'[i] = "connect"
              /\ pc'[i] = "fatal" =>
                    /\ attempts'[i] = retry_attempts
                    /\ db' = db
                    /\ tx' = tx
                    /\ lock' = lock
              /\ pc'[i] = "load" =>
                    /\ lock' = i
                    /\ attempts[i] < retry_attempts]_vars

\* C7 witness: an invocation has used up its attempts and ended, the
\* queue is as the lock holder committed it
C7_Witness ==
    \E i, j \in Invs :
        /\ pc[i] = "fatal"
        /\ attempts[i] = retry_attempts
        /\ pc[j] = "done"
        /\ db[1] # <<>>

\* C8 as claimed: when the cycle fails after the new status update was
\* appended, the update is in the queue of every service it was appended
\* to, or was reported, once the invocation has ended.
C8_NewEventSurvivesFailure ==
    [][\A i \in Invs :
          (pc[i] \in AfterAppend /\ pc'[i] = "fatal") =>
              \A s \in 1..svc[i] :
                  \/ status[i] \in Range(db'[s])
                  \/ \E k \in 1..Len(calls) :
                        calls[k].ok /\ status[i] \in Range(calls[k].tracks)]_vars

\* C9: the committed queue changes only when an invocation commits, and
\* then to the whole new content, the failed plays followed by the
\* leftovers; an invocation that ends anywhere else leaves it as it was.
C9_AtomicRewrite ==
    [][db' # db =>
          \E i \in Invs :
              /\ pc[i] = "commit"
              /\ pc'[i] = "done"
              /\ \A s \in 1..nsvc :
                    db'[s] = failed_scrobbles[s] \o leftovers[s]]_vars

\* C9 witness: an invocation ended between clear and save, and the
\* committed queue still has its rows
C9_Witness ==
    /\ raised_at = "save"
    /\ lock = 0
    /\ \E i \in Invs : pc[i] = "fatal"
    /\ db[1] # <<>>

\* C10: the step that sends now-playing never ends the invocation and
\* changes no queue, whether the request is answered or fails.
C10_NowPlayingFailureSwallowed ==
    [][\A i \in Invs :
          pc[i] = "now_playing" =>
              /\ pc'[i] \in {"now_playing", "load", "commit"}
              /\ tx' = tx
              /\ db' = db]_vars

\* C10 witness: the now-playing request failed, the invocation committed,
\* and its single Playing update is the queue
C10_Witness ==
    /\ np_failed
    /\ \E i \in Invs : pc[i] = "done"
    /\ Len(db[1]) = 1
    /\ db[1][1].status = STATUS_PLAYING

\* C11: with two services, a failed submission never ends the invocation;
\* when the invocation is about to commit, every service was decided on its
\* own queue and the new update alone, got a submission call if it had
\* plays and the now-playing request if the update is Playing, and its
\* queue is its own unsubmitted plays followed by its own leftovers.
C11_FailureIsolated ==
    /\ raised_at \notin {"scrobble", "now_playing"}
    /\ \A i \in Invs :
          pc[i] = "commit" =>
              \A s \in 1..nsvc :
                  LET r == calculate_scrobbles(Append(db[s], status[i]))
                      n == SubmittedOk(calls, s)
                  IN  /\ scrobbles[s] = r.scrobbles
                      /\ leftovers[s] = r.leftovers
                      /\ r.scrobbles # <<>> =>
                            \E k \in 1..Len(calls) : calls[k].service = s
                      /\ sends_now_playing(i) => s \in np_sent
                      /\ SubmissionFailed(calls, s) =>
                            tx[s] = SubSeq(r.scrobbles, n + 1,
                                           Len(r.scrobbles)) \o r.leftovers
                      /\ ~SubmissionFailed(calls, s) =>
                            /\ tx[s] = r.leftovers
                            /\ n = Len(r.scrobbles)

\* C11 witness: the first service's submission failed, the second service
\* got its submission and both got the now-playing request
C11_Witness ==
    /\ pc[1] = "commit"
    /\ nsvc = 2
    /\ SubmissionFailed(calls, 1)
    /\ ~SubmissionFailed(calls, 2)
    /\ SubmittedOk(calls, 2) >= 1
    /\ np_sent = {1, 2}
    /\ tx[1] # tx[2]

\* C12 as claimed: has_played_enough returns a truth value: FALSE without a
\* duration, TRUE for a total of 240 seconds or more whatever the duration,
\* and otherwise TRUE exactly when the total is at least half the duration.
C12_PlayedEnoughExact ==
    enough_out # <<>> =>
        LET a == enough_in[1]
            total == a.end_ts - a.start_ts + a.played_before_pause
            d == a.duration_value
        IN  /\ ~enough_out[1].raised
            /\ d = NoDuration => ~enough_out[1].value
            /\ (d # NoDuration /\ total >= 240) => enough_out[1].value
            /\ d > 0 =>
                  (enough_out[1].value <=> (2 * total >= d \/ total >= 240))

\* sus[a..b] is a run of one track, Playing, Paused, Playing, ... from its
\* first Playing event on
RunChain(sus, a, b) ==
    /\ 1 <= a
    /\ a <= b
    /\ b <= Len(sus)
    /\ \A k \in a..b :
          /\ sus[k].file = sus[a].file
          /\ sus[k].status = (IF (k - a) % 2 = 0 THEN STATUS_PLAYING
                              ELSE STATUS_PAUSED)
    /\ a > 1 =>
          ~(sus[a - 1].file = sus[a].file /\ sus[a - 1].status = STATUS_PAUSED)

\* the event after the run ends it: Stopped, a repeated Playing, or an event
\* of a different file
RunEnded(sus, a, b) ==
    /\ RunChain(sus, a, b)
    /\ b < Len(sus)
    /\ \/ sus[b + 1].status = STATUS_STOPPED
       \/ sus[b + 1].file # sus[a].file
       \/ sus[b + 1].status = STATUS_PLAYING /\ sus[b].status = STATUS_PLAYING

\* the time played in the run: its Playing-to-next-event intervals
RECURSIVE RunPlayed(_, _, _)
RunPlayed(sus, a, b) ==
    IF a > b THEN 0
    ELSE (IF sus[b].status = STATUS_PLAYING
          THEN sus[b + 1].cur_time - sus[b].cur_time ELSE 0)
         + RunPlayed(sus, a, b - 1)

RECURSIVE RunReported(_, _, _, _)
RunReported(plays, sus, a, b) ==
    IF a > b THEN 0
    ELSE Count(plays, sus[b]) + RunReported(plays, sus, a, b - 1)

PlayedHalfOrFourMinutes(played, d) ==
    d # NoDuration /\ (2 * played >= d \/ played >= 240)

\* C13 as claimed: an ended run is reported once exactly when its played
\* time reaches the threshold and not at all below it; a run that is not
\* ended is not reported.
C13_RunReportedIffPlayedEnough ==
    CalcDone =>
        \A a \in 1..Len(calc_in) : \A b \in a..Len(calc_in) :
            /\ RunEnded(calc_in, a, b) =>
                  RunReported(calc_out[1].scrobbles, calc_in, a, b)
                    = (IF PlayedHalfOrFourMinutes(
                              RunPlayed(calc_in, a, b), calc_in[a].duration)
                       THEN 1 ELSE 0)
            /\ (RunChain(calc_in, a, b) /\ b = Len(calc_in)) =>
                  RunReported(calc_out[1].scrobbles, calc_in, a, b) = 0

\* C14 as claimed: of an ended run of one track, only its first Playing
\* event is ever reported, never a Playing event that resumed it.
C14_FirstPlayingReported ==
    CalcDone =>
        \A a \in 1..Len(calc_in) : \A b \in a..Len(calc_in) :
            RunEnded(calc_in, a, b) =>
                \A k \in (a + 1)..b :
                    calc_in[k] \notin Range(calc_out[1].scrobbles)

\* the pair (prev, cur) continues an undecided play/pause chain
Chains(prev, cur) ==
    /\ cur.status # STATUS_STOPPED
    /\ cur.file = prev.file
    /\ cur.status # prev.status
    /\ prev.status # STATUS_STOPPED

\* index of the first event of the newest chain of sus
ChainStart(sus) ==
    CHOOSE c \in 1..Len(sus) :
        /\ \A k \in (c + 1)..Len(sus) : Chains(sus[k - 1], sus[k])
        /\ c > 1 => ~Chains(sus[c - 1], sus[c])

EndsPlay(sus, k) ==
    \/ sus[k + 1].status \in {STATUS_STOPPED, STATUS_PLAYING}
    \/ sus[k + 1].file # sus[k].file

\* C16: a Playing event directly followed by a Stopped event, a Playing
\* event or an event of another file, at least half its duration or 240
\* seconds later, is reported.
C16_EndedPlayReported ==
    CalcDone =>
        \A k \in 1..(Len(calc_in) - 1) :
            ( /\ calc_in[k].status = STATUS_PLAYING
              /\ EndsPlay(calc_in, k)
              /\ PlayedHalfOrFourMinutes(
                     calc_in[k + 1].cur_time - calc_in[k].cur_time,
                     calc_in[k].duration) )
            => calc_in[k] \in Range(calc_out[1].scrobbles)

\* C16 witness: three plays are reported, one ended by a repeated Playing
\* event, one by an event of another file and one by a Stopped event
C16_Witness ==
    /\ CalcDone
    /\ Len(calc_in) = 4
    /\ calc_out[1].scrobbles = SubSeq(calc_in, 1, 3)
    /\ calc_in[2].status = STATUS_PLAYING /\ calc_in[2].file = calc_in[1].file
    /\ calc_in[3].file # calc_in[2].file
    /\ calc_in[4].status = STATUS_STOPPED /\ calc_in[4].file = calc_in[3].file

\* C17: when the newest event is Playing it is not reported and it is the
\* last of the leftovers.
C17_NewestPlayingIsLeftover ==
    (CalcDone /\ calc_in # <<>>
       /\ calc_in[Len(calc_in)].status = STATUS_PLAYING) =>
        LET e == calc_in[Len(calc_in)]
            lo == calc_out[1].leftovers
        IN  /\ e \notin Range(calc_out[1].scrobbles)
            /\ lo # <<>>
            /\ lo[Len(lo)] = e

\* C17 witness: the newest event resumes a paused track after a play of
\* another track was reported
C17_Witness ==
    /\ CalcDone
    /\ Len(calc_in) = 4
    /\ calc_out[1].scrobbles = <<calc_in[1]>>
    /\ calc_in[2].status = STATUS_PLAYING
    /\ calc_in[3].status = STATUS_PAUSED
    /\ calc_in[4].status = STATUS_PLAYING
    /\ calc_in[4].file = calc_in[3].file
    /\ calc_out[1].leftovers = SubSeq(calc_in, 2, 4)

\* C18 as claimed: an ended run that played less than the threshold leaves
\* nothing behind: none of its events is reported or kept.
C18_ShortRunDiscarded ==
    CalcDone =>
        \A a \in 1..Len(calc_in) : \A b \in a..Len(calc_in) :
            ( /\ RunEnded(calc_in, a, b)
              /\ ~PlayedHalfOrFourMinutes(RunPlayed(calc_in, a, b),
                                          calc_in[a].duration) )
            => \A k \in a..b :
                  /\ calc_in[k] \notin Range(calc_out[1].scrobbles)
                  /\ calc_in[k] \notin Range(calc_out[1].leftovers)

\* the events of s from the oldest to the newest
RECURSIVE InTimeOrder(_)
InTimeOrder(s) ==
    IF s = <<>> THEN <<>>
    ELSE LET m == CHOOSE k \in 1..Len(s) :
                      \A j \in 1..Len(s) :
                          \/ s[k].cur_time < s[j].cur_time
                          \/ s[k].cur_time = s[j].cur_time /\ k <= j
             rest == [j \in 1..(Len(s) - 1) |->
                         IF j < m THEN s[j] ELSE s[j + 1]]
         IN  <<s[m]>> \o InTimeOrder(rest)

WholeChain(s) == \A k \in 2..Len(s) : Chains(s[k - 1], s[k])

\* C19 as claimed: when the queue followed by the new update is one
\* undecided chain, the cycle makes no call and rewrites the queue to the
\* previous queue followed by the new update; when the cycle has plays they
\* are submitted, and if no call fails the queue is the leftovers.
C19_ChainKeptInArrivalOrder ==
    \A i \in Invs :
        pc[i] = "commit" =>
            LET s == svc[i]
                all == Append(db[s], status[i])
            IN  /\ WholeChain(all) =>
                      /\ calls = <<>>
                      /\ tx[s] = all
                /\ scrobbles[s] # <<>> =>
                      /\ calls # <<>>
                      /\ ~SubmissionFailed(calls, s) =>
                            /\ Tracks(calls) = scrobbles[s]
                            /\ tx[s] = leftovers[s]

\* C19 as amended: the chain is judged, and the queue rewritten, in the
\* order of the events' timestamps.
C19_ChainKeptInTimeOrder ==
    \A i \in Invs :
        pc[i] = "commit" =>
            LET s == svc[i]
                all == Append(db[s], status[i])
            IN  /\ WholeChain(InTimeOrder(all)) =>
                      /\ calls = <<>>
                      /\ tx[s] = InTimeOrder(all)
                /\ scrobbles[s] # <<>> =>
                      /\ calls # <<>>
                      /\ ~SubmissionFailed(calls, s) =>
                            /\ Tracks(calls) = scrobbles[s]
                            /\ tx[s] = leftovers[s]

\* C19 witness: the new update is older than the queued one, both form a
\* chain, and the queue is rewritten in time order
C19_Witness ==
    \E i \in Invs :
        /\ pc[i] = "commit"
        /\ Len(db[1]) = 1
        /\ status[i].cur_time < db[1][1].cur_time
        /\ WholeChain(<<status[i], db[1][1]>>)
        /\ calls = <<>>
        /\ tx[1] = <<status[i], db[1][1]>>

\* C20: for an input of two or more events with distinct timestamps, in
\* whatever order it is handed over, the result is the result for the same
\* events handed over from the oldest to the newest.
C20_OrderOfInputIrrelevant ==
    (calc_out # <<>> /\ Len(calc_in) >= 2) =>
        calc_out[1] = calculate_scrobbles(InTimeOrder(calc_in))

\* C20 witness: an input handed over out of time order gives a play and a
\* leftover
C20_Witness ==
    /\ CalcDone
    /\ Len(calc_in) >= 3
    /\ calc_in # InTimeOrder(calc_in)
    /\ calc_out[1].scrobbles # <<>>
    /\ calc_out[1].leftovers # <<>>

C22_UnloadableRowIsFatal ==
    [][(pc[1] = "load" /\ get_status_updates_raises(tx[svc[1]])) =>
          /\ pc'[1] = "fatal"
          /\ raised_at' = "load"
          /\ \A k \in 1..Len(calls) : calls[k].service # svc[1]
          /\ calls' = <<>>
          /\ lock' = 0
          /\ db' = db
          /\ tx' = db
          /\ get_status_updates_raises(db'[svc[1]])]_vars

\* the second service's table holds a foreign row next to a queued status
\* update and the invocation has failed loading it, after the first
\* service's cycle went through
C22_Witness ==
    /\ pc[1] = "fatal"
    /\ raised_at = "load"
    /\ get_status_updates_raises(db[2])
    /\ Len(db[2]) >= 2
    /\ ~get_status_updates_raises(db[1])
    /\ db[1] # <<>>

(***************************************************************************)
(* C23: called with no status update or with exactly one, whatever its     *)
(* status, calculate_scrobbles returns no plays and the input itself as    *)
(* leftovers.                                                              *)
(***************************************************************************)
C23_FewerThanTwoUndecided ==
    (calc_out # <<>> /\ Len(calc_in) <= 1) =>
        /\ ~calc_out[1].raised
        /\ calc_out[1].scrobbles = <<>>
        /\ calc_out[1].leftovers = calc_in

\* a single Stopped status update has been decided
C23_Witness ==
    /\ calc_out # <<>>
    /\ Len(calc_in) = 1
    /\ calc_in[1].status = STATUS_STOPPED
    /\ calc_out[1].leftovers = calc_in

\* the walk over the decidable prefix of the sorted status updates
WalkedPrefix(sus0) ==
    LET sus == sorted(sus0)
    IN  decidable_prefix(sus, get_prefix_end_exclusive_idx(sus))

\* the state of the walk before each of its iterations, and after the last
WalkStates(lsus) ==
    LET ws[j \in 1..(Len(lsus) + 1)] ==
            IF j = 1 THEN WalkInit ELSE WalkStep(lsus, j - 1, ws[j - 1])
    IN  ws

\* iteration k of the walk evaluates has_played_enough
ChecksThreshold(lsus, ws, k) ==
    /\ ~ws[k].broke
    /\ ~ws[k].raised
    /\ lsus[k].status = STATUS_PLAYING
    /\ k + 1 <= Len(lsus)

\* the played_before_pause argument of that evaluation
CarryUsed(lsus, ws, k) ==
    IF ws[k].played_before_pause_status # <<>>
       /\ equal_tracks(ws[k].played_before_pause_status[1], lsus[k])
    THEN ws[k].played_before_pause ELSE 0

FilesRun == {tr.file : tr \in TracksRun}

\* how much of played_before_pause, after iteration j, was played by each
\* file: an iteration that adds to the carry adds the play time of its
\* current event, a reset gives it all up
CarriedFor(lsus, ws) ==
    LET cf[j \in 0..Len(lsus)] ==
            IF j = 0 \/ ws[j + 1].played_before_pause_status = <<>>
            THEN [f \in FilesRun |-> 0]
            ELSE [cf[j - 1] EXCEPT
                    ![lsus[j].file] = @ + ws[j + 1].played_before_pause
                                        - ws[j].played_before_pause]
    IN  cf

(***************************************************************************)
(* C24: the carry handed to the threshold check of a Playing event holds   *)
(* only time that was played by that event's file; time accumulated for    *)
(* another track is never part of it.                                      *)
(***************************************************************************)
C24_CarryOfSameFileOnly ==
    CalcDone =>
        LET lsus == WalkedPrefix(calc_in)
            ws == WalkStates(lsus)
            cf == CarriedFor(lsus, ws)
        IN  \A k \in 1..Len(lsus) :
                ChecksThreshold(lsus, ws, k) =>
                    CarryUsed(lsus, ws, k) <= cf[k - 1][lsus[k].file]

(***************************************************************************)
(* C25: the plays returned by calculate_scrobbles are in time order: the   *)
(* cur_time of each play is not smaller than that of the play before it,   *)
(* in whatever order the status updates were handed over.                  *)
(***************************************************************************)
C25_PlaysInTimeOrder ==
    CalcDone =>
        LET plays == calc_out[1].scrobbles
        IN  \A k \in 2..Len(plays) :
                plays[k - 1].cur_time <= plays[k].cur_time

\* status updates handed over newest first that give two plays
C25_Witness ==
    /\ CalcDone
    /\ Len(calc_out[1].scrobbles) >= 2
    /\ calc_in[1].cur_time > calc_in[Len(calc_in)].cur_time
    /\ calc_out[1].scrobbles[1].cur_time < calc_out[1].scrobbles[2].cur_time

NoStopped(s) == \A k \in 1..Len(s) : s[k].status # STATUS_STOPPED

(***************************************************************************)
(* C26: when a cycle decides on two or more status updates, the leftovers  *)
(* of calculate_scrobbles hold no Stopped event, and so the queue the      *)
(* cycle writes back holds none.                                           *)
(***************************************************************************)
C26_NoStoppedLeftOver ==
    (svc[1] = 1 /\ Len(status_updates[1]) >= 2) =>
        /\ pc[1] \in {"scrobble", "clear", "save", "now_playing", "commit"}
              => NoStopped(leftovers[1])
        /\ pc[1] \in {"now_playing", "commit"} => NoStopped(tx[1])

\* a cycle that decided on a queue with a Stopped event in it has written
\* a queue back
C26_Witness ==
    /\ pc[1] = "commit"
    /\ Len(status_updates[1]) >= 3
    /\ \E k \in 1..Len(status_updates[1]) :
          status_updates[1][k].status = STATUS_STOPPED
    /\ tx[1] # <<>>
    /\ tx[1] = failed_scrobbles[1] \o leftovers[1]

(***************************************************************************)
(* C27: on status updates that are pairwise distinct, no event occurs      *)
(* twice in the plays of calculate_scrobbles, and no event is in both      *)
(* plays and leftovers.                                                    *)
(***************************************************************************)
C27_ReportedOnceAndNotRetained ==
    (CalcDone /\ \A e \in Range(calc_in) : Count(calc_in, e) = 1) =>
        LET plays == calc_out[1].scrobbles
        IN  /\ \A e \in Range(plays) : Count(plays, e) = 1
            /\ Range(plays) \cap Range(calc_out[1].leftovers) = {}

\* iteration k of the walk appends a play
EmitsAt(ws, k) == Len(ws[k + 1].scrobbles) = Len(ws[k].scrobbles) + 1

\* the play it appends
EmittedAt(ws, k) == ws[k + 1].scrobbles[Len(ws[k + 1].scrobbles)]

(***************************************************************************)
(* C28: a play is appended only in an iteration whose threshold check      *)
(* succeeded, and it is an event of the file of that iteration's Playing   *)
(* event: a run of track B that played long enough never gets an event of  *)
(* another track A reported in its place.                                  *)
(***************************************************************************)
C28_PlayIsOfCheckedFile ==
    CalcDone =>
        LET lsus == WalkedPrefix(calc_in)
            ws == WalkStates(lsus)
        IN  \A k \in 1..Len(lsus) :
                EmitsAt(ws, k) =>
                    /\ ChecksThreshold(lsus, ws, k)
                    /\ has_played_enough(lsus[k].cur_time,
                                         lsus[k + 1].cur_time,
                                         lsus[k].duration,
                                         CarryUsed(lsus, ws, k))
                    /\ equal_tracks(EmittedAt(ws, k), lsus[k])

\* iteration k of the walk ends the run of its Playing event: the next
\* event is Stopped, a Playing event or an event of another file, or it is
\* a pause that the event after it does not resume
RunEndsAt(lsus, ws, k) ==
    /\ ChecksThreshold(lsus, ws, k)
    /\ \/ ~equal_tracks(lsus[k], lsus[k + 1])
       \/ lsus[k + 1].status \in {STATUS_STOPPED, STATUS_PLAYING}
       \/ /\ k + 2 <= Len(lsus)
          /\ ~(equal_tracks(lsus[k], lsus[k + 2])
                /\ lsus[k + 2].status = STATUS_PLAYING)

(***************************************************************************)
(* C29: once a pause/resume run has ended, the carry accumulated for it    *)
(* and its anchor are used by no later iteration of the walk: an anchor    *)
(* set before the end of a run neither adds its carry to a later           *)
(* threshold check nor is appended as a play later, not even for a later   *)
(* run of the same file.                                                   *)
(***************************************************************************)
C29_CarryEndsWithItsRun ==
    CalcDone =>
        LET lsus == WalkedPrefix(calc_in)
            ws == WalkStates(lsus)
        IN  \A k \in 1..Len(lsus), m \in 1..Len(lsus) :
                (/\ k < m
                 /\ RunEndsAt(lsus, ws, k)
                 /\ ChecksThreshold(lsus, ws, m)
                 /\ ws[m].played_before_pause_status # <<>>
                 /\ ws[m].played_before_pause_status[1].cur_time
                       <= lsus[k].cur_time) =>
                    /\ ~equal_tracks(ws[m].played_before_pause_status[1],
                                     lsus[m])
                    /\ ~(EmitsAt(ws, m)
                         /\ EmittedAt(ws, m)
                               = ws[m].played_before_pause_status[1])

(***************************************************************************)
(* C30: every play returned by calculate_scrobbles is a Playing event with *)
(* a duration, so the Playing filter of the scrobble request keeps the     *)
(* whole list: as many tracks go out as there are plays.                   *)
(***************************************************************************)
C30_PlaysArePlayingWithDuration ==
    CalcDone =>
        LET plays == calc_out[1].scrobbles
        IN  /\ \A k \in 1..Len(plays) :
                  /\ plays[k].status = STATUS_PLAYING
                  /\ plays[k].duration # NoDuration
            /\ playing_updates(plays) = plays

(***************************************************************************)
(* C31: the leftovers are a fixed point of the decision: when              *)
(* calculate_scrobbles returned (plays, leftovers), calling it on those    *)
(* leftovers returns no plays and the same leftovers.                      *)
(***************************************************************************)
C31_LeftoversAreFixedPoint ==
    Len(calc_out) = 3 =>
        /\ ~calc_out[3].raised
        /\ calc_out[3].scrobbles = <<>>
        /\ calc_out[3].leftovers = calc_out[1].leftovers

\* leftovers of two events, kept after a play was found, decided again
C31_Witness ==
    /\ Len(calc_out) = 3
    /\ calc_out[1].scrobbles # <<>>
    /\ Len(calc_out[1].leftovers) >= 2
    /\ calc_out[3].leftovers = calc_out[1].leftovers

(***************************************************************************)
(* C32: when the status updates arrive in the order of their timestamps,   *)
(* one per cycle, and every submission succeeds, the plays submitted over  *)
(* the cycles are the plays calculate_scrobbles returns for all the status *)
(* updates at once, and the queue after the last cycle is the leftovers of *)
(* that one call.                                                          *)
(***************************************************************************)
C32_IncrementalIsOneShot ==
    LET one_shot == calculate_scrobbles(calc_in)
    IN  /\ calc_out[1].scrobbles = one_shot.scrobbles
        /\ calc_out[1].leftovers = one_shot.leftovers

(***************************************************************************)
(* C33: when an invocation ends, a play that one of its scrobble requests  *)
(* delivered to a service is not in the committed queue of that service,   *)
(* whatever happened later in the invocation, a failure in the cycle of a  *)
(* later service included; so the next invocation does not submit it to    *)
(* the service again.                                                      *)
(***************************************************************************)
C33_SubmittedPlayLeavesQueue ==
    [][(pc[1] \in InTx /\ pc'[1] \in Ended) =>
          \A k \in 1..Len(calls) :
              calls[k].ok =>
                  \A su \in Range(calls[k].tracks) :
                      \A j \in 1..Len(db'[calls[k].service]) :
                          db'[calls[k].service][j] # su]_vars

(***************************************************************************)
(* C34: whatever the queue holds and whatever the new status update is,    *)
(* its duration absent, zero or positive, a cycle that got the transaction *)
(* and loaded the queue gets a result from calculate_scrobbles: the        *)
(* decision never raises, so no queue content makes the invocations after  *)
(* it fail.                                                                *)
(***************************************************************************)
C34_DecisionNeverRaises ==
    \A i \in Invs :
        pc[i] = "calc" => ~calculate_scrobbles(status_updates[svc[i]]).raised

(***************************************************************************)
(* C35 as claimed: an invocation that holds the write transaction gives it *)
(* up when it ends, and an invocation that is trying to get it and has     *)
(* attempts left does get it in the end.                                   *)
(***************************************************************************)
C35_ContenderAcquires ==
    /\ [](\A i \in Invs : lock = i => pc[i] \in InTx)
    /\ \A j \in Invs :
          (pc[j] = "connect" /\ attempts[j] < retry_attempts) ~> (lock = j)

(***************************************************************************)
(* C35, amended: an invocation that holds the write transaction gives it   *)
(* up when it ends, by commit or by rollback, so the transaction is never  *)
(* held for ever; an invocation that is trying to get it either gets it    *)
(* and runs its cycle to the end, or uses up its attempts and fails.       *)
(***************************************************************************)
C35_ReleasedAndContenderDecided ==
    /\ [](\A i \in Invs : lock = i <=> pc[i] \in InTx)
    /\ [](\A j \in Invs :
            (pc[j] = "fatal" /\ \A k \in 1..Len(order) : order[k] # j) =>
                attempts[j] = retry_attempts)
    /\ <>[](lock = 0 /\ \A j \in Invs : pc[j] \in {"idle"} \cup Ended)

\* an invocation found the transaction taken, tried again after the holder
\* had committed, and holds it now
C35_Witness ==
    \E i \in Invs, j \in Invs :
        /\ pc[i] = "done"
        /\ lock = j
        /\ attempts[j] >= 1
        /\ order = <<i, j>>

(***************************************************************************)
(* C36: the steps of a cycle change the table of the cycle's own service   *)
(* only, and the committed tables not at all                               *)
(***************************************************************************)
InCycle == {"load", "calc", "scrobble", "clear", "save", "now_playing"}

\* a step of the cycle of service svc[1] that does not raise leaves the
\* tables of the other services as they are, and no step of a cycle changes
\* a committed table; the load step reads the service's own table and
\* appends the new status to it
CycleFrame ==
    pc[1] \in InCycle =>
        /\ db' = db
        /\ pc'[1] # "fatal" =>
              \A o \in Services \ {svc[1]} :
                  /\ tx'[o] = tx[o]
                  /\ status_updates'[o] = status_updates[o]
        /\ (pc[1] = "load" /\ pc'[1] = "calc") =>
              /\ tx'[svc[1]] = Append(tx[svc[1]], status[1])
              /\ status_updates'[svc[1]] = Append(tx[svc[1]], status[1])
        /\ (pc[1] # "load" /\ pc'[1] # "fatal") =>
              Count(tx'[svc[1]], status[1]) <= 1

\* every configured service has read its table and got the new status once
ReceivedOnce ==
    \A s \in 1..nsvc : Count(status_updates[s], status[1]) = 1

====
